---- MODULE Spec2Model ----
(***************************************************************************)
(* Model of the 4-DOF articulated RRRP manipulator (robot.py) and of the   *)
(* pick-and-place simulation that drives it (simulation.py).               *)
(*                                                                         *)
(* Numbers.  The Python code computes in binary floating point.  Here      *)
(* lengths are integers in millimetres and angles are integers in units   *)
(* of 1e-4 rad; cos and sin return units of 1e-4.  Every product is        *)
(* rounded to the nearest unit where the code rounds to the nearest float. *)
(* A joint vector is <<q1, q2, q3, q4>> (three angles, then the lift in    *)
(* mm); a point is <<x, y, z>> in mm.  Object indices are the code's       *)
(* 0, 1, 2.                                                                *)
(*                                                                         *)
(* Control.  The button callbacks run on the GUI thread.  The only place   *)
(* where a running callback gives control away is plt.pause(0.01) inside   *)
(* _animate_segment, which runs the GUI event loop: a button click that    *)
(* arrives there is dispatched at once, on top of the paused callback.     *)
(* The call stack of callbacks is the variable "stack".                    *)
(***************************************************************************)
EXTENDS Integers, Sequences, FiniteSets, TLC

VARIABLES
    q_current,    \* self.q_current
    objects_pos,  \* self.objects_pos, one point per object
    object_done,  \* self.object_done, one flag per object
    stack,        \* activation records of the running button callbacks
    requests,     \* number of requests (button clicks, direct calls) so far
    ret,          \* how the most recent call ended
    ik            \* the most recent inverse_kinematics call: target and result

vars == <<q_current, objects_pos, object_done, stack, requests, ret, ik>>

(***************************************************************************)
(* Bounds of the model.                                                    *)
(***************************************************************************)
\* Requests issued in one run.
MaxRequests == 2
\* Interpolation steps of the long legs (the code passes steps=60).
LongSteps == 3
\* Interpolation steps of the short legs (the code passes steps=40).
ShortSteps == 2

(***************************************************************************)
(* Fixed-point arithmetic standing for numpy's.                            *)
(***************************************************************************)
\* a / b rounded to the nearest integer, for b > 0.
RDiv(a, b) == (a + (b \div 2)) \div b

Abs(a) == IF a < 0 THEN -a ELSE a

\* np.clip
clip(v, lo, hi) == IF v < lo THEN lo ELSE IF v > hi THEN hi ELSE v

\* cos on [0, pi/2] (a in 1e-4 rad), in units of 1e-8: the Taylor polynomial
\* 1 - a^2/2! + a^4/4! - a^6/6! + a^8/8!, each term from the one before.
CosSeries(a) ==
    LET x2 == a * a
        t2 == x2 \div 2
        t4 == ((t2 \div 10000) * (x2 \div 10000)) \div 12
        t6 == ((t4 \div 10000) * (x2 \div 10000)) \div 30
        t8 == ((t6 \div 10000) * (x2 \div 10000)) \div 56
    IN  100000000 - t2 + t4 - t6 + t8

\* np.cos: angle in 1e-4 rad, result in units of 1e-4.
cos(t) ==
    LET a == Abs(t) % 62832
        b == IF a > 31416 THEN 62832 - a ELSE a
    IN  IF b > 15708
        THEN -RDiv(CosSeries(31416 - b), 10000)
        ELSE RDiv(CosSeries(b), 10000)

\* np.sin
sin(t) == cos(t - 15708)

\* Largest r in lo..hi with r * r <= n.
RECURSIVE SqrtSearch(_, _, _)
SqrtSearch(n, lo, hi) ==
    IF lo >= hi THEN lo
    ELSE LET mid == (lo + hi + 1) \div 2
         IN  IF mid * mid <= n THEN SqrtSearch(n, mid, hi)
             ELSE SqrtSearch(n, lo, mid - 1)

\* np.sqrt, rounded to the nearest integer.
sqrt(n) ==
    LET r == SqrtSearch(n, 0, 20000)
    IN  IF n - r * r > (r + 1) * (r + 1) - n THEN r + 1 ELSE r

\* Largest angle t in lo..hi (1e-4 rad) with tan t <= small / big.
RECURSIVE AtanSearch(_, _, _, _)
AtanSearch(small, big, lo, hi) ==
    IF lo >= hi THEN lo
    ELSE LET mid == (lo + hi + 1) \div 2
         IN  IF sin(mid) * big <= cos(mid) * small
             THEN AtanSearch(small, big, mid, hi)
             ELSE AtanSearch(small, big, lo, mid - 1)

\* np.arctan2(y, x), in 1e-4 rad in (-pi, pi]; arctan2(0, 0) = 0.
arctan2(y, x) ==
    LET ax == Abs(x)
        ay == Abs(y)
        small == IF ay <= ax THEN ay ELSE ax
        big == IF ay <= ax THEN ax ELSE ay
        base == IF big = 0 THEN 0 ELSE AtanSearch(small, big, 0, 7854)
        first == IF ay <= ax THEN base ELSE 15708 - base
        upper == IF x < 0 THEN 31416 - first ELSE first
    IN  IF y < 0 THEN -upper ELSE upper

(***************************************************************************)
(* robot.py: class ArticulatedRRRP                                         *)
(***************************************************************************)
L1 == 300
L2 == 250
L3 == 180
z_base == 250
z_min == -150
z_max == 150

\* ArticulatedRRRP.forward_kinematics: the five points p0, p1, p2, p3, p4;
\* the last one is the end effector.  The planar sums are kept in units of
\* 1e-4 mm and each point is rounded to the millimetre once.
forward_kinematics(q) ==
    LET q1 == q[1]
        q2 == q[2]
        q3 == q[3]
        q4 == q[4]
        p0 == <<0, 0, 0>>
        p1 == <<0, 0, z_base>>
        t1 == q1
        t2 == q1 + q2
        t3 == q1 + q2 + q3
        x2 == L1 * cos(t1)
        y2 == L1 * sin(t1)
        x3 == x2 + L2 * cos(t2)
        y3 == y2 + L2 * sin(t2)
        xw == x3 + L3 * cos(t3)
        yw == y3 + L3 * sin(t3)
        p2 == <<RDiv(x2, 10000), RDiv(y2, 10000), z_base>>
        p3 == <<RDiv(x3, 10000), RDiv(y3, 10000), z_base>>
        wrist == <<RDiv(xw, 10000), RDiv(yw, 10000), z_base>>
        q4_clamped == clip(q4, z_min, z_max)
        p4 == <<wrist[1], wrist[2], z_base + q4_clamped>>
    IN  <<p0, p1, p2, p3, p4>>

\* joints[-1]
EndEffector(joints) == joints[5]

\* max_r = L1 + L2 - 1e-6, in units of 0.1 mm; the micrometre of the code
\* is below the resolution used here.
max_r == 10 * (L1 + L2)

\* The planar part of inverse_kinematics, lines 90 to 121, one operator per
\* group of assignments; each passes its results on as arguments.  The
\* wrist centre (xw, yw), r and k1, k2 are in units of 0.1 mm and 0.01 mm,
\* c2 and s2 in units of 1e-4.

\* q3 = phi - q1 - q2 and the planar result <<q1, q2, q3>>.
WristAngle(phi, q1, q2) == <<q1, q2, phi - q1 - q2>>

\* q2 = arctan2(s2, c2), k1, k2, q1 = arctan2(yw, xw) - arctan2(k2, k1).
ShoulderElbow(phi, xw, yw, c2, s2) ==
    WristAngle(phi,
               arctan2(yw, xw)
                   - arctan2(RDiv(L2 * s2, 100), RDiv(L1 * 10000 + L2 * c2, 100)),
               arctan2(s2, c2))

\* s2 = sqrt(1 - c2**2)
SineLaw(phi, xw, yw, c2) ==
    ShoulderElbow(phi, xw, yw, c2, sqrt(100000000 - c2 * c2))

\* c2 = clip((r2 - L1**2 - L2**2) / (2 * L1 * L2), -1, 1)
CosineLaw(phi, xw, yw, r2) ==
    SineLaw(phi, xw, yw,
            clip(RDiv((r2 - 100 * (L1 * L1 + L2 * L2)) * 100, 2 * L1 * L2),
                 -10000, 10000))

\* if r > max_r: scale (xw, yw) down to radius max_r
ReachClamp(phi, xw, yw, r) ==
    IF r > max_r
    THEN CosineLaw(phi, RDiv(xw * max_r, r), RDiv(yw * max_r, r), max_r * max_r)
    ELSE CosineLaw(phi, xw, yw, xw * xw + yw * yw)

\* r2 = xw**2 + yw**2, r = sqrt(r2)
WristRadius(phi, xw, yw) == ReachClamp(phi, xw, yw, sqrt(xw * xw + yw * yw))

\* xw = x - L3 cos(phi), yw = y - L3 sin(phi)
WristCentre(x, y, phi) ==
    WristRadius(phi, 10 * x - RDiv(L3 * cos(phi), 1000),
                10 * y - RDiv(L3 * sin(phi), 1000))

\* phi = arctan2(y, x), and on from there: <<q1, q2, q3>> for (x, y).
PlanarInverse(x, y) == WristCentre(x, y, arctan2(y, x))

\* inverse_kinematics with the lift left unclamped: q4 = z - z_base.
inverse_kinematics_unclamped(target) ==
    LET q4 == target[3] - z_base
    IN  PlanarInverse(target[1], target[2]) \o <<q4>>

\* ArticulatedRRRP.inverse_kinematics
inverse_kinematics(target) ==
    LET x == target[1]
        y == target[2]
        z == target[3]
        q4 == clip(z - z_base, z_min, z_max)
    IN  PlanarInverse(x, y) \o <<q4>>

(***************************************************************************)
(* simulation.py: class ManipulatorSimulation                              *)
(***************************************************************************)
\* The object indices of the buttons "Floor 1", "Floor 2", "Floor 3".
Objects == 0 .. 2

\* carry_index=None
None == -1

q_home == <<0, 0, 0, 350>>

floor_positions ==
    [k \in Objects |->
        CASE k = 0 -> <<350, -150, 20>>
          [] k = 1 -> <<400, 0, 20>>
          [] k = 2 -> <<350, 150, 20>>]

shelf_x == 400
shelf_y == 520

shelf_levels ==
    [k \in Objects |-> CASE k = 0 -> 250 [] k = 1 -> 450 [] k = 2 -> 650]

shelf_positions == [k \in Objects |-> <<shelf_x, shelf_y, shelf_levels[k]>>]

safe_height == 750

NoPoint == <<0, 0, 0>>
NoJoints == <<0, 0, 0, 0>>
NoReturn ==
    [op |-> "none", obj_idx |-> None, outcome |-> "none", steps |-> 0,
     produced |-> 0]

\* The activation record on top of the call stack.
Top == stack[Len(stack)]

\* q = (1.0 - alpha) * q_start + alpha * q_target with alpha = i / steps,
\* alpha in thousandths.
Interpolate(i, steps, q_start, q_target) ==
    LET alpha == RDiv(1000 * i, steps)
    IN  [j \in 1 .. 4 |->
            RDiv((1000 - alpha) * q_start[j] + alpha * q_target[j], 1000)]

\* The entry of _animate_segment(q_target, steps, carry_index) in the
\* activation record f: q_start = self.q_current.copy(), and the loop
\* variable before the first iteration.  qc is self.q_current at the call.
BeginSegment(f, qc, q_target, steps, carry_index) ==
    [f EXCEPT !.q_start = qc, !.q_target = q_target, !.steps = steps,
              !.carry_index = carry_index, !.i = 0, !.pc = "loop"]

\* An activation record of the handler op before its first segment.
NewFrame(op, obj_idx) ==
    [op |-> op, obj_idx |-> obj_idx, leg |-> 1,
     q_pre_pick |-> NoJoints, q_pick |-> NoJoints,
     q_pre_place |-> NoJoints, q_place |-> NoJoints, place_pos |-> NoPoint,
     q_start |-> NoJoints, q_target |-> NoJoints, steps |-> 0,
     carry_index |-> None, i |-> 0, q |-> NoJoints, pc |-> "loop"]

\* __init__ and _create_objects
Init ==
    /\ q_current = q_home
    /\ objects_pos = floor_positions
    /\ object_done = [k \in Objects |-> FALSE]
    /\ stack = <<>>
    /\ requests = 0
    /\ ret = NoReturn
    /\ ik = [target |-> NoPoint, q |-> NoJoints, called |-> FALSE]

\* A button click can be dispatched by the main event loop (plt.show, empty
\* stack) and by the event loop that plt.pause runs inside a callback.
CanDispatch ==
    /\ requests < MaxRequests
    /\ IF stack = <<>> THEN TRUE ELSE Top.pc = "pause"

\* The activation record of pick_and_place(obj_idx) with its joint goals.
PickPlaceFrame(obj_idx, q_pre_pick, q_pick, q_pre_place, q_place, place_pos) ==
    [NewFrame("pick_and_place", obj_idx) EXCEPT
        !.q_pre_pick = q_pre_pick, !.q_pick = q_pick,
        !.q_pre_place = q_pre_place, !.q_place = q_place,
        !.place_pos = place_pos]

\* pre_pick = pick_pos.copy(); pre_pick[2] = safe_height (and pre_place)
AtSafeHeight(pos) == <<pos[1], pos[2], safe_height>>

\* pick_and_place after the test of object_done, up to the first plt.pause:
\* the four inverse_kinematics calls and the start of the first leg.
StartCycle(obj_idx) ==
    /\ stack' = Append(stack,
           BeginSegment(
               PickPlaceFrame(
                   obj_idx,
                   inverse_kinematics(AtSafeHeight(floor_positions[obj_idx])),
                   inverse_kinematics(floor_positions[obj_idx]),
                   inverse_kinematics(AtSafeHeight(shelf_positions[obj_idx])),
                   inverse_kinematics(shelf_positions[obj_idx]),
                   shelf_positions[obj_idx]),
               q_current,
               inverse_kinematics(AtSafeHeight(floor_positions[obj_idx])),
               LongSteps, None))
    /\ ik' = [target |-> shelf_positions[obj_idx],
              q |-> inverse_kinematics(shelf_positions[obj_idx]),
              called |-> TRUE]
    /\ UNCHANGED <<q_current, objects_pos, object_done, ret>>

\* pick_and_place without the test of object_done.
pick_and_place_unguarded(obj_idx) == StartCycle(obj_idx)

\* pick_and_place(obj_idx), from its entry to the first plt.pause: the
\* early return for a placed object, else the start of the cycle.
pick_and_place(obj_idx) ==
    IF object_done[obj_idx]
    THEN /\ ret' = [op |-> "pick_and_place", obj_idx |-> obj_idx,
                    outcome |-> "noop", steps |-> 0, produced |-> 0]
         /\ UNCHANGED <<q_current, objects_pos, object_done, stack, ik>>
    ELSE StartCycle(obj_idx)

\* go_home(), from its entry to the first plt.pause.
go_home ==
    /\ stack' = Append(stack,
                   BeginSegment(NewFrame("go_home", None), q_current, q_home,
                                LongSteps, None))
    /\ UNCHANGED <<q_current, objects_pos, object_done, ret, ik>>

\* Button "Floor k+1": lambda event, k=idx: self.pick_and_place(k)
ClickFloor(k) ==
    /\ CanDispatch
    /\ requests' = requests + 1
    /\ pick_and_place(k)

\* Button "Reset": lambda event: self.go_home()
ClickReset ==
    /\ CanDispatch
    /\ requests' = requests + 1
    /\ go_home

\* One iteration of the loop of _animate_segment, up to plt.pause.  With
\* steps = 0 the division i / steps raises ZeroDivisionError, which ends
\* the call.
Iterate ==
    /\ stack # <<>>
    /\ Top.pc = "loop"
    /\ Top.i <= Top.steps
    /\ IF Top.steps = 0
       THEN /\ stack' = SubSeq(stack, 1, Len(stack) - 1)
            /\ ret' = [op |-> Top.op, obj_idx |-> Top.obj_idx,
                       outcome |-> "raised", steps |-> Top.steps,
                       produced |-> Top.i]
            /\ UNCHANGED <<q_current, objects_pos, object_done, requests, ik>>
       ELSE LET q == Interpolate(Top.i, Top.steps, Top.q_start, Top.q_target)
                joints == forward_kinematics(q)
                ee == EndEffector(joints)
            IN  /\ stack' = [stack EXCEPT ![Len(stack)] =
                                [@ EXCEPT !.q = q, !.pc = "pause"]]
                /\ objects_pos' =
                       IF Top.carry_index # None
                       THEN [objects_pos EXCEPT ![Top.carry_index] = ee]
                       ELSE objects_pos
                /\ UNCHANGED <<q_current, object_done, requests, ret, ik>>

\* plt.pause(0.01) returns and the loop goes to its next iteration.
Resume ==
    /\ stack # <<>>
    /\ Top.pc = "pause"
    /\ stack' = [stack EXCEPT ![Len(stack)] =
                    [@ EXCEPT !.i = @ + 1, !.pc = "loop"]]
    /\ UNCHANGED <<q_current, objects_pos, object_done, requests, ret, ik>>

\* The loop of _animate_segment is over: self.q_current = q_target.copy(),
\* and the handler runs on to its next plt.pause or to its return.
SegmentEnd ==
    /\ stack # <<>>
    /\ Top.pc = "loop"
    /\ Top.i > Top.steps
    /\ q_current' = Top.q_target
    /\ LET f == Top
           k == f.obj_idx
           next(q_target, steps, carry_index) ==
               [stack EXCEPT ![Len(stack)] =
                   BeginSegment([f EXCEPT !.leg = @ + 1], f.q_target,
                                q_target, steps, carry_index)]
       IN  IF f.op = "pick_and_place" /\ f.leg < 6
           THEN /\ stack' =
                       CASE f.leg = 1 -> next(f.q_pick, ShortSteps, None)
                         [] f.leg = 2 -> next(f.q_pre_pick, ShortSteps, k)
                         [] f.leg = 3 -> next(f.q_pre_place, LongSteps, k)
                         [] f.leg = 4 -> next(f.q_place, ShortSteps, k)
                         [] f.leg = 5 -> next(f.q_pre_place, ShortSteps, None)
                /\ objects_pos' =
                       IF f.leg = 5
                       THEN [objects_pos EXCEPT ![k] = f.place_pos]
                       ELSE objects_pos
                /\ object_done' =
                       IF f.leg = 5
                       THEN [object_done EXCEPT ![k] = TRUE]
                       ELSE object_done
                /\ UNCHANGED ret
           ELSE /\ stack' = SubSeq(stack, 1, Len(stack) - 1)
                /\ ret' = [op |-> f.op, obj_idx |-> f.obj_idx,
                           outcome |-> "returned", steps |-> f.steps,
                           produced |-> f.i]
                /\ UNCHANGED <<objects_pos, object_done>>
    /\ UNCHANGED <<requests, ik>>

Next ==
    \/ \E k \in Objects : ClickFloor(k)
    \/ ClickReset
    \/ Iterate
    \/ Resume
    \/ SegmentEnd

Spec == Init /\ [][Next]_vars

(***************************************************************************)
(* Direct calls of inverse_kinematics and of _animate_segment, with        *)
(* arguments the buttons never pass: any target, any step count.           *)
(***************************************************************************)
\* Targets in reach and out of reach, with z below, inside and above the
\* travel of the lift.
UnitTargets ==
    {<<xy[1], xy[2], z>> : xy \in {<<400, 520>>, <<900, 300>>},
                           z \in {50, 151, 400, 401, 750}}

\* Step counts: negative, zero, positive.
UnitSteps == {-1, 0, 1, 2}

\* q = self.robot.inverse_kinematics(target)
CallInverse(target) ==
    /\ stack = <<>>
    /\ ik' = [target |-> target, q |-> inverse_kinematics(target),
              called |-> TRUE]
    /\ UNCHANGED <<q_current, objects_pos, object_done, stack, requests, ret>>

\* self._animate_segment(q, steps, carry_index), once, with the joint
\* vector of the last inverse_kinematics call as q_target.
CallSegment(steps, carry_index) ==
    /\ stack = <<>>
    /\ requests = 0
    /\ ik.called
    /\ requests' = requests + 1
    /\ stack' = <<BeginSegment(NewFrame("_animate_segment", None), q_current,
                               ik.q, steps, carry_index)>>
    /\ UNCHANGED <<q_current, objects_pos, object_done, ret, ik>>

NextUnit ==
    \/ \E target \in UnitTargets : CallInverse(target)
    \/ \E steps \in UnitSteps, carry_index \in {None, 0} :
           CallSegment(steps, carry_index)
    \/ Iterate
    \/ Resume
    \/ SegmentEnd

SpecUnit == Init /\ [][NextUnit]_vars

(***************************************************************************)
(* Properties                                                              *)
(***************************************************************************)
\* The activation records of pick_and_place on the stack, by depth.
Cycles == {d \in 1 .. Len(stack) : stack[d].op = "pick_and_place"}

\* The record at depth d is still in the same leg after the step.
SameLeg(d) ==
    /\ d <= Len(stack')
    /\ stack'[d].op = stack[d].op
    /\ stack'[d].leg = stack[d].leg

\* The step is the return of a full pick_and_place(k) cycle.
CycleReturns(k) ==
    /\ SegmentEnd
    /\ Top.op = "pick_and_place"
    /\ Top.obj_idx = k
    /\ Top.leg = 6

\* C1: when pick_and_place(k) finishes a full cycle, object_done[k] is true
\* and objects_pos[k] is the end-effector position that forward_kinematics
\* yields for inverse_kinematics(shelf_positions[k]), for every k.
C1_PlacedAtPoseReached ==
    [][\A k \in Objects :
          CycleReturns(k) =>
              /\ object_done'[k]
              /\ objects_pos'[k] =
                     EndEffector(forward_kinematics(
                         inverse_kinematics(shelf_positions[k])))]_vars

\* C2: pick_and_place(k) on an object that is already placed runs no leg
\* and leaves q_current, objects_pos and object_done as they are, from any
\* state, also when it is dispatched inside another request.
C2_PlacedObjectRequestIsNoOp ==
    [][\A k \in Objects :
          (object_done[k] /\ ClickFloor(k)) =>
              UNCHANGED <<q_current, objects_pos, object_done, stack>>]_vars

\* A request for a placed object has returned at once.
C2_Witness ==
    /\ ret.op = "pick_and_place"
    /\ ret.outcome = "noop"
    /\ object_done[ret.obj_idx]
    /\ objects_pos[ret.obj_idx] = shelf_positions[ret.obj_idx]

\* C3: the lift component of q_current and of every joint vector that
\* _animate_segment produces lies in [z_min, z_max], in every state.
C3_LiftWithinTravel ==
    /\ q_current[4] \in z_min .. z_max
    /\ \A d \in 1 .. Len(stack) :
           stack[d].pc = "pause" => stack[d].q[4] \in z_min .. z_max

\* C4: _animate_segment called with steps <= 0 never completes normally;
\* it signals the invalid argument.
C4_NonPositiveStepsRejected ==
    (ret.op = "_animate_segment" /\ ret.steps <= 0) => ret.outcome = "raised"

\* C5: at every step produced in a carry leg the carried object is exactly
\* at the end effector of that step's joint vector, and while a carry leg
\* of object k is running no other object's position changes.
C5_CarriedObjectFollowsGripper ==
    [][/\ (Iterate /\ Top.steps # 0 /\ Top.carry_index # None) =>
              objects_pos'[Top.carry_index] =
                  EndEffector(forward_kinematics(stack'[Len(stack)].q))
       /\ \A d \in 1 .. Len(stack) :
              (stack[d].carry_index # None /\ SameLeg(d)) =>
                  \A j \in Objects \ {stack[d].carry_index} :
                      objects_pos'[j] = objects_pos[j]]_vars

\* C6: when the pick leg has ended and object k becomes carried, the end
\* effector at q_current is at floor_positions[k].
C6_GripperAtFloorPoseOnAttach ==
    \A d \in Cycles :
        (d = Len(stack) /\ stack[d].leg = 3 /\ stack[d].i = 0
            /\ stack[d].pc = "loop") =>
            EndEffector(forward_kinematics(q_current))
                = floor_positions[stack[d].obj_idx]

\* C7: the last joint vector a leg produces is its goal, the end of the leg
\* sets q_current to the goal, and q_current does not change while the leg
\* is running.
C7_LegEndsExactlyAtGoal ==
    [][/\ \A d \in 1 .. Len(stack') :
              (stack'[d].pc = "pause" /\ stack'[d].i = stack'[d].steps) =>
                  stack'[d].q = stack'[d].q_target
       /\ SegmentEnd => q_current' = Top.q_target
       /\ \A d \in 1 .. Len(stack) :
              SameLeg(d) => q_current' = q_current]_vars

\* C8: requests run one at a time: no handler starts while another one is
\* running, and an object that is placed is not moved again.
C8_OneRequestAtATime ==
    [][/\ Len(stack') <= 1
       /\ \A k \in Objects :
              object_done[k] => objects_pos'[k] = objects_pos[k]]_vars

\* C9 as stated: for any target with z above z_max, inverse_kinematics
\* returns q4 = z_max.
C9_ZAboveMaxGivesMax ==
    (ik.called /\ ik.target[3] > z_max) => ik.q[4] = z_max

\* C9, amended: for any target with z - z_base above z_max, that is with z
\* above z_base + z_max, inverse_kinematics returns q4 = z_max.
C9_LiftAboveMaxGivesMax ==
    (ik.called /\ ik.target[3] - z_base > z_max) => ik.q[4] = z_max

\* inverse_kinematics has clamped a lift above z_max.
C9_Witness ==
    /\ ik.called
    /\ ik.target[3] - z_base > z_max
    /\ ik.q[4] = z_max

\* The goal of the leg that the cycle in record f is in.
LegGoal(f) ==
    CASE f.leg = 1 -> f.q_pre_pick
      [] f.leg = 2 -> f.q_pick
      [] f.leg = 3 -> f.q_pre_pick
      [] f.leg = 4 -> f.q_pre_place
      [] f.leg = 5 -> f.q_place
      [] f.leg = 6 -> f.q_pre_place

\* C10: a cycle runs the six legs pre-pick, pick, pre-pick, pre-place,
\* place, pre-place in this order, each starting when the one before has
\* committed its goal; object k is carried in legs 3, 4, 5 and only
\* there; object_done[k] becomes true between legs 5 and 6; objects_pos[k]
\* does not change during legs 1, 2 and 6.
C10_SixLegsInOrder ==
    [][/\ \A d \in 1 .. Len(stack') :
              stack'[d].op = "pick_and_place" =>
                  /\ stack'[d].leg \in 1 .. 6
                  /\ stack'[d].q_target = LegGoal(stack'[d])
                  /\ stack'[d].carry_index =
                         (IF stack'[d].leg \in 3 .. 5
                          THEN stack'[d].obj_idx ELSE None)
                  /\ object_done'[stack'[d].obj_idx] = (stack'[d].leg = 6)
       /\ \A d \in Cycles :
              IF d <= Len(stack')
              THEN \/ /\ SameLeg(d)
                      /\ stack[d].leg \in {1, 2, 6} =>
                             objects_pos'[stack[d].obj_idx]
                                 = objects_pos[stack[d].obj_idx]
                   \/ /\ stack'[d].leg = stack[d].leg + 1
                      /\ stack'[d].q_start = stack[d].q_target
                      /\ q_current' = stack[d].q_target
              ELSE stack[d].leg = 6]_vars

====
